---- MODULE Spec2Model ----
(***************************************************************************)
(* A model of ClimeCapsule: the observation store (weather/db.py), the     *)
(* rate-limited fetch client, the historical backfill and the daily        *)
(* aggregation (weather/clime_capsule.py).                                 *)
(*                                                                         *)
(* Strings that the code compares or formats (timestamps, dates) are       *)
(* sequences of character codes, so that SQLite's TEXT comparison is the   *)
(* byte-wise comparison it is.  A column value or a dict value is either   *)
(* None (the empty tuple) or a one-element tuple <<n>> holding a number.   *)
(***************************************************************************)
EXTENDS Integers, Sequences, FiniteSets, TLC

VARIABLES
    \* WeatherDB
    db,          \* the weather_data table: rows in rowid order
    firstSeen,   \* history: for each timestamp, the row of the first insert attempt
    lastOp,      \* the store operation that ran last
    lastArg,     \* its argument (a batch, or a date string)
    pre,         \* the table as it was before that operation
    rep,         \* whether that operation repeated the insert before it
    ret,         \* what that operation returned or raised
    conn,        \* the connection that operation opened: "closed", or left "open"
    \* two callers of the inserts at the same time, each on its own connection
    wpc,         \* where each writer is
    wrows,       \* the VALUES tuples of each writer's batch
    windex,      \* the item each writer's loop is at
    wexc,        \* what each writer's call raised
    lock,        \* the writer whose transaction holds the database's write lock, or 0
    wtable,      \* the table as that transaction sees it, its uncommitted rows included
    \* ClimeCapsule.make_api_call and its three decorators
    now,         \* the clock, in seconds
    last_reset,  \* RateLimitDecorator.last_reset
    num_calls,   \* RateLimitDecorator.num_calls
    pc,          \* where the one calling thread is inside make_api_call
    tries,       \* backoff's try counter for the running call
    wake,        \* when the sleeping thread wakes
    attempts,    \* HTTP requests the running call has issued
    status,      \* the outcome of the call's last HTTP request
    result,      \* what the call returned or raised
    params,      \* the running call's endpoint and date parameter
    recent,      \* history: <<time, count>> of the HTTP requests issued
    responses,   \* history: the lists the hourly calls of this run returned
    blocked,     \* history: whether the running call has found the window used up
    \* ClimeCapsule.init_db and fetch_historical_hourly_data
    fpc,         \* where init_db is
    dbExists,    \* os.path.exists(self.db_name)
    range,       \* the start and end strings init_db passed
    start_date,  \* the loop's date
    end_date,    \* the last date of the range
    observations,\* the list the loop extends
    fetched,     \* history: the date parameter of each hourly call of this run
    inserts,     \* history: the lists this run passed to insert_observations
    \* ClimeCapsule.compile_daily_data
    cpc,         \* whether compile_daily_data has been called
    input,       \* the list it is called with
    summary,     \* what it returned or raised
    \* ClimeCapsuleAPI.today_plus_history
    page,        \* the last request: its inputs, what it raised, the past dates it queried
    proj         \* the last projection of a date i years back, and its outcome

raceVars == <<wpc, wrows, windex, wexc, lock, wtable>>

storeVars == <<db, firstSeen, lastOp, lastArg, pre, rep, ret, conn, raceVars>>

callVars ==
    <<now, last_reset, num_calls, pc, tries, wake, attempts, status, result, params,
      recent, responses, blocked>>

fillVars == <<fpc, dbExists, range, start_date, end_date, observations, fetched, inserts>>

pageVars == <<page, proj>>

compileVars == <<cpc, input, summary, pageVars>>

vars == <<storeVars, callVars, fillVars, compileVars>>

(***************************************************************************)
(* Bounds of the model.                                                    *)
(***************************************************************************)
MaxBatch == 2

\* The clock advances in steps of ClockStep seconds, up to MaxTime.
ClockStep == 30

MaxTime == 120

\* The longest list compile_daily_data is given.
MaxObs == 2

\* The largest years_back a request of /today_plus_history carries.
MaxYearsBack == 4

(***************************************************************************)
(* Values and strings.                                                     *)
(***************************************************************************)
None == <<>>

Some(n) == <<n>>

IsNone(x) == x = None

Num(x) == x[1]

\* Two and four decimal digits, as character codes ('0' is 48).
D2(n) == <<48 + ((n \div 10) % 10), 48 + (n % 10)>>

D4(n) == <<48 + ((n \div 1000) % 10), 48 + ((n \div 100) % 10)>> \o D2(n)

\* The provider's obsTimeLocal, "YYYY-MM-DD HH:MM:SS" ('-' 45, ' ' 32, ':' 58).
Timestamp(y, m, d, H, M, S) ==
    D4(y) \o <<45>> \o D2(m) \o <<45>> \o D2(d) \o <<32>> \o
    D2(H) \o <<58>> \o D2(M) \o <<58>> \o D2(S)

\* A date string "YYYY-MM-DD" as a caller writes it.
DateStr(y, m, d) == D4(y) \o <<45>> \o D2(m) \o <<45>> \o D2(d)

\* Byte-wise comparison of two strings (SQLite's BINARY collation, memcmp).
RECURSIVE StrLess(_, _)
StrLess(a, b) ==
    IF b = <<>> THEN FALSE
    ELSE IF a = <<>> THEN TRUE
    ELSE IF Head(a) # Head(b) THEN Head(a) < Head(b)
    ELSE StrLess(Tail(a), Tail(b))

StrLeq(a, b) == a = b \/ StrLess(a, b)

(***************************************************************************)
(* Calendar: datetime, strptime, strftime, timedelta(days=1).              *)
(***************************************************************************)
IsLeap(y) == (y % 4 = 0 /\ y % 100 # 0) \/ y % 400 = 0

DaysInMonth(y, m) ==
    IF m = 2 THEN (IF IsLeap(y) THEN 29 ELSE 28)
    ELSE IF m \in {4, 6, 9, 11} THEN 30 ELSE 31

IsDigit(c) == c >= 48 /\ c <= 57

DigitsVal2(s, i) == (s[i] - 48) * 10 + (s[i + 1] - 48)

DigitsVal4(s, i) == DigitsVal2(s, i) * 100 + DigitsVal2(s, i + 2)

\* datetime.strptime(date_str, "%Y-%m-%d") on a ten-character string:
\* a date, or ValueError.
strptime_date(s) ==
    IF /\ Len(s) = 10
       /\ \A i \in {1, 2, 3, 4, 6, 7, 9, 10} : IsDigit(s[i])
       /\ s[5] = 45 /\ s[8] = 45
    THEN LET y == DigitsVal4(s, 1)
             m == DigitsVal2(s, 6)
             d == DigitsVal2(s, 9)
         IN IF y >= 1 /\ m >= 1 /\ m <= 12 /\ d >= 1 /\ d <= DaysInMonth(y, m)
            THEN [exc |-> "none", y |-> y, m |-> m, d |-> d]
            ELSE [exc |-> "ValueError", y |-> 0, m |-> 0, d |-> 0]
    ELSE [exc |-> "ValueError", y |-> 0, m |-> 0, d |-> 0]

\* dt + timedelta(days=1)
NextDay(dt) ==
    IF dt.d < DaysInMonth(dt.y, dt.m) THEN [dt EXCEPT !.d = dt.d + 1]
    ELSE IF dt.m < 12 THEN [dt EXCEPT !.m = dt.m + 1, !.d = 1]
    ELSE [dt EXCEPT !.y = dt.y + 1, !.m = 1, !.d = 1]

\* dt.strftime("%Y-%m-%d 00:00:00")
strftime_midnight(dt) == Timestamp(dt.y, dt.m, dt.d, 0, 0, 0)

(***************************************************************************)
(* Provider records.  A key the provider omits reads as None through       *)
(* dict.get, so a record carries every key and None for an absent one.     *)
(* The hourly endpoint fills tempHigh/tempLow/tempAvg, ..., humidityAvg;   *)
(* the current-conditions endpoint fills temp, windSpeed, windChill and    *)
(* humidity.                                                               *)
(***************************************************************************)
StationId == "KCOTEST1"

HourlyObs(ts, t, w, c, hum, p) ==
    [stationID |-> StationId, obsTimeLocal |-> ts,
     humidityAvg |-> hum, humidity |-> None,
     imperial |-> [tempHigh |-> t[1], tempLow |-> t[2], tempAvg |-> t[3],
                   windspeedHigh |-> w[1], windspeedLow |-> w[2], windspeedAvg |-> w[3],
                   windchillHigh |-> c[1], windchillLow |-> c[2], windchillAvg |-> c[3],
                   temp |-> None, windSpeed |-> None, windChill |-> None,
                   precipRate |-> p[1], precipTotal |-> p[2]]]

CurrentObs(ts, t, w, c, hum, p) ==
    [stationID |-> StationId, obsTimeLocal |-> ts,
     humidityAvg |-> None, humidity |-> hum,
     imperial |-> [tempHigh |-> None, tempLow |-> None, tempAvg |-> None,
                   windspeedHigh |-> None, windspeedLow |-> None, windspeedAvg |-> None,
                   windchillHigh |-> None, windchillLow |-> None, windchillAvg |-> None,
                   temp |-> t, windSpeed |-> w, windChill |-> c,
                   precipRate |-> p[1], precipTotal |-> p[2]]]

(***************************************************************************)
(* WeatherDB: the table, the two inserts and the query.                    *)
(***************************************************************************)
\* The VALUES tuple of insert_observations.
ObservationRow(obs) ==
    [station_id |-> obs.stationID,
     obs_time_local |-> obs.obsTimeLocal,
     temperature_high |-> obs.imperial.tempHigh,
     temperature_low |-> obs.imperial.tempLow,
     temperature_average |-> obs.imperial.tempAvg,
     humidity |-> obs.humidityAvg,
     wind_speed_high |-> obs.imperial.windspeedHigh,
     wind_speed_low |-> obs.imperial.windspeedLow,
     wind_speed_average |-> obs.imperial.windspeedAvg,
     windchill_high |-> obs.imperial.windchillHigh,
     windchill_low |-> obs.imperial.windchillLow,
     windchill_average |-> obs.imperial.windchillAvg,
     precip_rate |-> obs.imperial.precipRate,
     precip_total |-> obs.imperial.precipTotal]

\* The VALUES tuple of insert_current_observations.
CurrentObservationRow(obs) ==
    [station_id |-> obs.stationID,
     obs_time_local |-> obs.obsTimeLocal,
     temperature_high |-> obs.imperial.temp,
     temperature_low |-> obs.imperial.temp,
     temperature_average |-> obs.imperial.temp,
     humidity |-> obs.humidity,
     wind_speed_high |-> obs.imperial.windSpeed,
     wind_speed_low |-> obs.imperial.windSpeed,
     wind_speed_average |-> obs.imperial.windSpeed,
     windchill_high |-> obs.imperial.windChill,
     windchill_low |-> obs.imperial.windChill,
     windchill_average |-> obs.imperial.windChill,
     precip_rate |-> obs.imperial.precipRate,
     precip_total |-> obs.imperial.precipTotal]

\* obs_time_local TEXT UNIQUE: two rows conflict when their timestamps are
\* equal and not NULL.
UniqueConflictNone(table, row) == FALSE

UniqueConflict(table, row) ==
    /\ ~IsNone(row.obs_time_local)
    /\ \E i \in DOMAIN table : table[i].obs_time_local = row.obs_time_local

\* INSERT ... ON CONFLICT DO UPDATE: what the statement would do if it
\* updated the stored row in place.
ExecuteInsertOrUpdate(table, row) ==
    IF \E i \in DOMAIN table : table[i].obs_time_local = row.obs_time_local
    THEN [table |-> [i \in DOMAIN table |->
                        IF table[i].obs_time_local = row.obs_time_local THEN row
                        ELSE table[i]],
          exc |-> "none"]
    ELSE [table |-> Append(table, row), exc |-> "none"]

\* INSERT OR REPLACE: what the statement would do if it overwrote.
ExecuteInsertOrReplace(table, row) ==
    [table |-> Append(SelectSeq(table, LAMBDA r : r.obs_time_local # row.obs_time_local), row),
     exc |-> "none"]

\* c.execute("INSERT INTO weather_data ... VALUES ..."): the row is appended,
\* or sqlite3.IntegrityError is raised and the table is left as it was.
ExecuteInsert(table, row) ==
    IF UniqueConflict(table, row)
    THEN [table |-> table, exc |-> "IntegrityError"]
    ELSE [table |-> Append(table, row), exc |-> "none"]

\* except sqlite3.IntegrityError: print(...) -- the item is skipped.
ExceptReraise(exc) == "raise"

ExceptIntegrityError(exc) == IF exc = "IntegrityError" THEN "skip" ELSE "raise"

\* for obs in observations: try: c.execute(...) except ...; conn.commit().
\* An exception that leaves the loop leaves the transaction uncommitted:
\* the table stays as it was when the connection was opened.
RECURSIVE InsertLoop(_, _, _)
InsertLoop(opened, table, rows) ==
    IF rows = <<>> THEN [table |-> table, exc |-> "none"]
    ELSE LET r == ExecuteInsert(table, Head(rows))
         IN IF r.exc = "none" THEN InsertLoop(opened, r.table, Tail(rows))
            ELSE IF ExceptIntegrityError(r.exc) = "skip"
                 THEN InsertLoop(opened, table, Tail(rows))
                 ELSE [table |-> opened, exc |-> r.exc]

MapRows(batch) == [i \in DOMAIN batch |-> ObservationRow(batch[i])]

MapCurrentRows(batch) ==
    [i \in DOMAIN batch |-> CurrentObservationRow(batch[i])]

insert_observations(table, batch) ==
    InsertLoop(table, table, MapRows(batch))

insert_current_observations(table, batch) ==
    InsertLoop(table, table, MapCurrentRows(batch))

\* WHERE obs_time_local >= ? AND obs_time_local < ?  (a NULL compares to NULL,
\* which is not true).
InWindowClosed(ts, start_ts, end_ts) ==
    ~IsNone(ts) /\ StrLeq(start_ts, ts) /\ StrLeq(ts, end_ts)

InWindow(ts, start_ts, end_ts) ==
    ~IsNone(ts) /\ StrLeq(start_ts, ts) /\ StrLess(ts, end_ts)

\* ORDER BY obs_time_local ASC
RECURSIVE PlaceRow(_, _)
PlaceRow(row, sorted) ==
    IF sorted = <<>> THEN <<row>>
    ELSE IF StrLess(row.obs_time_local, Head(sorted).obs_time_local)
         THEN <<row>> \o sorted
         ELSE <<Head(sorted)>> \o PlaceRow(row, Tail(sorted))

RECURSIVE OrderByTime(_)
OrderByTime(rows) ==
    IF rows = <<>> THEN <<>>
    ELSE PlaceRow(rows[Len(rows)], OrderByTime(SubSeq(rows, 1, Len(rows) - 1)))

\* The dict query_by_date builds from a fetched row.
RowDict(row) ==
    [stationID |-> row.station_id,
     obsTimeLocal |-> row.obs_time_local,
     imperial |-> [tempHigh |-> row.temperature_high,
                   tempLow |-> row.temperature_low,
                   tempAvg |-> row.temperature_average,
                   humidity |-> row.humidity,
                   windspeedHigh |-> row.wind_speed_high,
                   windspeedLow |-> row.wind_speed_low,
                   windspeedAverage |-> row.wind_speed_average,
                   windchillHigh |-> row.windchill_high,
                   windchillLow |-> row.windchill_low,
                   windchillAverage |-> row.windchill_average,
                   precipRate |-> row.precip_rate,
                   precipAverage |-> row.precip_total]]

SelectRows(table, start_ts, end_ts) ==
    OrderByTime(SelectSeq(table, LAMBDA r : InWindow(r.obs_time_local, start_ts, end_ts)))

\* conn = sqlite3.connect(self.db_file) is the first statement; strptime
\* follows it, and conn.close() follows the SELECT.
query_by_date(table, date_str) ==
    LET connected == "open"
        dt == strptime_date(date_str)
    IN IF dt.exc # "none" THEN [exc |-> dt.exc, value |-> <<>>, conn |-> connected]
       ELSE LET start_ts == strftime_midnight(dt)
                end_ts == strftime_midnight(NextDay(dt))
                rows == SelectRows(table, start_ts, end_ts)
            IN [exc |-> "none", value |-> [i \in DOMAIN rows |-> RowDict(rows[i])],
                conn |-> "closed"]

(***************************************************************************)
(* The store as the program drives it: batches of provider records are     *)
(* inserted and days are queried, in any order.                            *)
(***************************************************************************)
TS1 == Timestamp(2024, 2, 29, 0, 0, 0)

TS2 == Timestamp(2024, 2, 29, 23, 59, 59)

TS3 == Timestamp(2024, 3, 1, 0, 0, 0)

Hourly1 ==
    HourlyObs(TS1, <<Some(70), Some(60), Some(65)>>, <<Some(12), Some(0), Some(6)>>,
              <<Some(70), Some(60), Some(65)>>, Some(40), <<Some(0), Some(0)>>)

Hourly2 ==
    HourlyObs(TS2, <<Some(-5), Some(-9), Some(-7)>>, <<Some(20), Some(8), Some(14)>>,
              <<None, None, None>>, Some(55), <<Some(2), Some(1)>>)

Hourly3 ==
    HourlyObs(TS3, <<Some(31), Some(28), Some(30)>>, <<Some(3), Some(1), Some(2)>>,
              <<Some(25), Some(20), Some(22)>>, None, <<Some(0), Some(1)>>)

Current2 == CurrentObs(TS2, Some(41), Some(7), Some(38), Some(60), <<Some(1), Some(3)>>)

HourlyPool == {Hourly1, Hourly2, Hourly3}

CurrentPool == {Current2}

\* What the provider may answer: the "observations" list of the body.
ResponsesTo(p) ==
    IF IsNone(p.date) THEN {<<>>, <<Current2>>}
    ELSE {<<>>, <<Hourly1>>, <<Hourly3>>, <<Hourly2, Hourly1>>}

\* The date strings a caller may pass: three days, and a string that names
\* no day.
QueryDates ==
    { DateStr(2024, 2, 28), DateStr(2024, 2, 29), DateStr(2024, 3, 1), DateStr(2024, 13, 40) }

Batches(pool) == UNION { [1..n -> pool] : n \in 0..MaxBatch }

\* The two callers of the concurrent inserts.
Writers == {1, 2}

\* History: the row of the first insert attempt for each timestamp.
RECURSIVE NoteFirst(_, _)
NoteFirst(seen, rows) ==
    IF rows = <<>> THEN seen
    ELSE IF \E k \in DOMAIN seen : seen[k].obs_time_local = Head(rows).obs_time_local
         THEN NoteFirst(seen, Tail(rows))
         ELSE NoteFirst(Append(seen, Head(rows)), Tail(rows))

Repeats(op, arg) ==
    IF lastOp = op /\ lastArg = arg
    THEN (IF pre # db THEN "fresh" ELSE "stale")
    ELSE "no"

\* The limiter as the decorator builds it, and no call running.
CallInit ==
    /\ now = 0
    /\ last_reset = 0
    /\ num_calls = 0
    /\ pc = "idle"
    /\ tries = 0
    /\ wake = 0
    /\ attempts = 0
    /\ status = "none"
    /\ result = [exc |-> "none", value |-> <<>>]
    /\ params = [endpoint |-> "none", date |-> None]
    /\ recent = <<>>
    /\ responses = <<>>
    /\ blocked = FALSE

\* init_db has not run and the database file does not exist.
NoDate == [exc |-> "none", y |-> 0, m |-> 0, d |-> 0]

FillInit ==
    /\ fpc = "idle"
    /\ dbExists = FALSE
    /\ range = <<>>
    /\ start_date = NoDate
    /\ end_date = NoDate
    /\ observations = <<>>
    /\ fetched = <<>>
    /\ inserts = <<>>

StoreInit ==
    /\ db = <<>>
    /\ firstSeen = <<>>
    /\ lastOp = "none"
    /\ lastArg = <<>>
    /\ pre = <<>>
    /\ rep = "no"
    /\ ret = [exc |-> "none", value |-> <<>>]
    /\ conn = "none"
    /\ wpc = [w \in Writers |-> "idle"]
    /\ wrows = [w \in Writers |-> <<>>]
    /\ windex = [w \in Writers |-> 1]
    /\ wexc = [w \in Writers |-> "none"]
    /\ lock = 0
    /\ wtable = <<>>

\* A summary is a local value of the handler that compiled it: it is gone
\* when the next store operation is called.
SummaryDropped ==
    /\ cpc' = "idle"
    /\ input' = <<>>
    /\ summary' = [exc |-> "none", value |-> <<>>]
    /\ UNCHANGED pageVars

\* conn.commit(); conn.close() end an insert that did not raise.
ConnAfter(exc) == IF exc = "none" THEN "closed" ELSE "open"

\* WeatherDB.insert_observations, called with hourly records (init_db) or with
\* current-conditions records (the /current endpoint).
CallInsertObservations(B) ==
    LET r == insert_observations(db, B)
    IN /\ db' = r.table
       /\ firstSeen' = NoteFirst(firstSeen, MapRows(B))
       /\ lastOp' = "insert_observations"
       /\ lastArg' = B
       /\ pre' = db
       /\ rep' = Repeats("insert_observations", B)
       /\ ret' = [exc |-> r.exc, value |-> <<>>]
       /\ conn' = ConnAfter(r.exc)
       /\ UNCHANGED raceVars

InsertObservations ==
    \E B \in Batches(HourlyPool \cup CurrentPool) :
        /\ CallInsertObservations(B)
        /\ SummaryDropped
        /\ UNCHANGED <<callVars, fillVars>>

\* WeatherDB.insert_current_observations (the /today_plus_history endpoint).
InsertCurrentObservations ==
    \E B \in Batches(CurrentPool) :
        LET r == insert_current_observations(db, B)
        IN /\ db' = r.table
           /\ firstSeen' = NoteFirst(firstSeen, MapCurrentRows(B))
           /\ lastOp' = "insert_current_observations"
           /\ lastArg' = B
           /\ pre' = db
           /\ rep' = Repeats("insert_current_observations", B)
           /\ ret' = [exc |-> r.exc, value |-> <<>>]
           /\ conn' = ConnAfter(r.exc)
           /\ UNCHANGED raceVars
           /\ SummaryDropped
           /\ UNCHANGED <<callVars, fillVars>>

\* WeatherDB.query_by_date
QueryByDate ==
    \E d \in QueryDates :
        LET r == query_by_date(db, d)
        IN /\ ret' = [exc |-> r.exc, value |-> r.value]
           /\ conn' = r.conn
           /\ lastOp' = "query_by_date"
           /\ lastArg' = d
           /\ pre' = db
           /\ rep' = "no"
           /\ UNCHANGED <<db, firstSeen, raceVars>>
           /\ SummaryDropped
           /\ UNCHANGED <<callVars, fillVars>>

\* compile_daily_data has not been called.
CompileIdle ==
    /\ cpc = "idle"
    /\ input = <<>>
    /\ summary = [exc |-> "none", value |-> <<>>]

\* No request of /today_plus_history has been made.
PageIdle ==
    /\ page = [pc |-> "idle", today |-> NoDate, years_back |-> 0, current |-> <<>>,
               exc |-> "none", queried |-> <<>>]
    /\ proj = [pc |-> "idle", today |-> NoDate, i |-> 0, out |-> NoDate]

Init == StoreInit /\ CallInit /\ FillInit /\ CompileIdle /\ PageIdle

StoreNext == InsertObservations \/ InsertCurrentObservations \/ QueryByDate

Spec == Init /\ [][StoreNext]_vars

(***************************************************************************)
(* Claims about the store.                                                 *)
(***************************************************************************)
IsInsert == lastOp \in {"insert_observations", "insert_current_observations"}

\* The rows the last insert tried to write.
LastRows ==
    IF lastOp = "insert_observations" THEN MapRows(lastArg)
    ELSE IF lastOp = "insert_current_observations" THEN MapCurrentRows(lastArg)
    ELSE <<>>

Stored(table, ts) == \E j \in DOMAIN table : table[j].obs_time_local = ts

\* C1: inserting a batch a second time, right after inserting it, returns
\* normally and leaves the table exactly as the first insert left it.
C1_IdempotentInsert ==
    (lastOp = "insert_observations" /\ rep # "no") => (db = pre /\ ret.exc = "none")

\* The same batch has been inserted twice in a row, and its first insert
\* added rows.
C1_Witness ==
    lastOp = "insert_observations" /\ rep = "fresh" /\ Len(lastArg) = MaxBatch /\ db = pre

\* C2: the table holds at most one row per obs_time_local, and each row is
\* the row of the first insert attempt ever made with its timestamp.
C2_FirstWriteWins ==
    /\ \A i, j \in DOMAIN db : db[i].obs_time_local = db[j].obs_time_local => i = j
    /\ \A i \in DOMAIN db :
          \E k \in DOMAIN firstSeen :
              /\ firstSeen[k].obs_time_local = db[i].obs_time_local
              /\ firstSeen[k] = db[i]

\* An insert met a stored row with its timestamp and other field values.
C2_Witness ==
    /\ IsInsert
    /\ \E i \in DOMAIN LastRows, j \in DOMAIN pre :
          /\ LastRows[i].obs_time_local = pre[j].obs_time_local
          /\ LastRows[i] # pre[j]
          /\ db[j] = pre[j]

\* C3: insert_observations returns normally whatever collides, and every item
\* whose timestamp was neither stored before the call nor carried by an
\* earlier item of the batch is a row of the table afterwards.
C3_CollisionNeverFails ==
    lastOp = "insert_observations" =>
        /\ ret.exc = "none"
        /\ \A i \in DOMAIN LastRows :
              ( /\ ~Stored(pre, LastRows[i].obs_time_local)
                /\ \A k \in 1..(i - 1) :
                      LastRows[k].obs_time_local # LastRows[i].obs_time_local )
              => \E j \in DOMAIN db : db[j] = LastRows[i]

\* A batch whose first item collided and whose later item was new.
C3_Witness ==
    /\ lastOp = "insert_observations"
    /\ \E i, j \in DOMAIN LastRows :
          /\ i < j
          /\ Stored(pre, LastRows[i].obs_time_local)
          /\ ~Stored(pre, LastRows[j].obs_time_local)
          /\ \E k \in DOMAIN db : db[k] = LastRows[j]

\* The calendar day and the instant a well-formed timestamp denotes.
DayOf(ts) == [y |-> DigitsVal4(ts, 1), m |-> DigitsVal2(ts, 6), d |-> DigitsVal2(ts, 9)]

InstantOf(ts) ==
    <<DigitsVal4(ts, 1), DigitsVal2(ts, 6), DigitsVal2(ts, 9),
      DigitsVal2(ts, 12), DigitsVal2(ts, 15), DigitsVal2(ts, 18)>>

\* a is an earlier instant than b: year first, then month, day, hour, ...
Earlier(a, b) ==
    \E n \in 1..6 : a[n] < b[n] /\ \A k \in 1..(n - 1) : a[k] = b[k]

ValidDate(date_str) == strptime_date(date_str).exc = "none"

\* C4: for a valid date d, query_by_date(d) does not raise and returns the
\* rows of day d, each once, in ascending time order.
C4_QueryByDate ==
    (lastOp = "query_by_date" /\ ValidDate(lastArg)) =>
        LET day == DayOf(lastArg)
            hits == { j \in DOMAIN db : DayOf(db[j].obs_time_local) = day }
            out == ret.value
        IN /\ ret.exc = "none"
           /\ Len(out) = Cardinality(hits)
           /\ \A j \in hits : \E i \in DOMAIN out : out[i] = RowDict(db[j])
           /\ \A i \in DOMAIN out : \E j \in hits : out[i] = RowDict(db[j])
           /\ \A i, k \in DOMAIN out :
                 i < k => Earlier(InstantOf(out[i].obsTimeLocal), InstantOf(out[k].obsTimeLocal))

\* A day's two rows were inserted latest first, the next day's first instant
\* is stored too, and the query returned the day's two rows.
C4_Witness ==
    /\ lastOp = "query_by_date"
    /\ ValidDate(lastArg)
    /\ Len(ret.value) = 2
    /\ Len(db) = 3
    /\ Earlier(InstantOf(db[2].obs_time_local), InstantOf(db[1].obs_time_local))
    /\ DayOf(db[1].obs_time_local) = DayOf(db[2].obs_time_local)
    /\ DayOf(db[1].obs_time_local) = DayOf(lastArg)

\* C12 (query_by_date): a date string that names no day makes query_by_date
\* raise the date error with the store not opened.
C12_InvalidDateBeforeStore ==
    (lastOp = "query_by_date" /\ ~ValidDate(lastArg)) =>
        (ret.exc = "ValueError" /\ conn = "none")

\* query_by_date was given 2024-13-40 on a populated store: it raised
\* ValueError with its connection opened and not closed.
C12_Witness ==
    /\ lastOp = "query_by_date"
    /\ lastArg = DateStr(2024, 13, 40)
    /\ ret.exc = "ValueError"
    /\ conn = "open"
    /\ db # <<>>

\* A record of the current-conditions endpoint: it carries temp, windSpeed
\* and windChill.
IsCurrent(obs) == ~IsNone(obs.imperial.temp)

FilledBy(row, obs) ==
    /\ row.temperature_high = obs.imperial.temp
    /\ row.temperature_low = obs.imperial.temp
    /\ row.temperature_average = obs.imperial.temp
    /\ row.wind_speed_high = obs.imperial.windSpeed
    /\ row.wind_speed_low = obs.imperial.windSpeed
    /\ row.wind_speed_average = obs.imperial.windSpeed
    /\ row.windchill_high = obs.imperial.windChill
    /\ row.windchill_low = obs.imperial.windChill
    /\ row.windchill_average = obs.imperial.windChill

\* C15: whichever insert persists a current-conditions record, the row it
\* stores holds the record's temp, windSpeed and windChill in the high, low
\* and avg columns, none of them null.
C15_CurrentFillsAllSlots ==
    IsInsert =>
        \A i \in DOMAIN lastArg :
            ( /\ IsCurrent(lastArg[i])
              /\ ~Stored(pre, lastArg[i].obsTimeLocal)
              /\ \A k \in 1..(i - 1) : lastArg[k].obsTimeLocal # lastArg[i].obsTimeLocal )
            => \E j \in DOMAIN db :
                  /\ db[j].obs_time_local = lastArg[i].obsTimeLocal
                  /\ FilledBy(db[j], lastArg[i])
                  /\ ~IsNone(db[j].temperature_high)

\* insert_observations, as the /current endpoint calls it, stored a
\* current-conditions record: the row's high, low and avg are null.
C15_Witness ==
    /\ lastOp = "insert_observations"
    /\ Len(lastArg) = 1
    /\ IsCurrent(lastArg[1])
    /\ ~Stored(pre, lastArg[1].obsTimeLocal)
    /\ \E j \in DOMAIN db :
          /\ db[j].obs_time_local = lastArg[1].obsTimeLocal
          /\ IsNone(db[j].temperature_high)
          /\ IsNone(db[j].wind_speed_average)
          /\ IsNone(db[j].windchill_low)

\* The same record through insert_current_observations, as the
\* /today_plus_history endpoint calls it, fills the nine columns.
CurrentInsertFillsAllSlots ==
    lastOp = "insert_current_observations" => C15_CurrentFillsAllSlots

(***************************************************************************)
(* Two callers insert at the same time, each on the connection its call    *)
(* opened.  sqlite3 begins a transaction before a connection's first       *)
(* INSERT and the statement takes the database's write lock, which the     *)
(* transaction keeps until conn.commit().  A statement that finds the lock *)
(* held waits for it, for at most the connection's timeout (5 seconds, the *)
(* default of sqlite3.connect), and then raises sqlite3.OperationalError.  *)
(***************************************************************************)
\* The VALUES tuples of the batches the two callers may insert.
RaceBatches ==
    { MapRows(B) : B \in Batches(HourlyPool) } \cup
    { MapCurrentRows(B) : B \in Batches(CurrentPool) }

SharesTimestamp(R1, R2) ==
    \E i \in DOMAIN R1, j \in DOMAIN R2 : R1[i].obs_time_local = R2[j].obs_time_local

\* Both calls are made: conn = sqlite3.connect(self.db_file); c = conn.cursor().
RaceStart ==
    /\ \A w \in Writers : wpc[w] \in {"idle", "done", "raised"}
    /\ \E R1, R2 \in RaceBatches :
          /\ SharesTimestamp(R1, R2)
          /\ wrows' = [w \in Writers |-> IF w = 1 THEN R1 ELSE R2]
    /\ wpc' = [w \in Writers |-> "loop"]
    /\ windex' = [w \in Writers |-> 1]
    /\ wexc' = [w \in Writers |-> "none"]
    /\ UNCHANGED <<lock, wtable>>
    /\ UNCHANGED <<db, firstSeen, lastOp, lastArg, pre, rep, ret, conn>>
    /\ UNCHANGED <<callVars, fillVars, compileVars>>

\* One turn of a caller's loop when the write lock is free or its own:
\* c.execute("INSERT ...") and the except clause.
RaceExecute ==
    \E w \in Writers :
        /\ wpc[w] = "loop"
        /\ windex[w] <= Len(wrows[w])
        /\ lock \in {0, w}
        /\ LET view == IF lock = w THEN wtable ELSE db
               r == ExecuteInsert(view, wrows[w][windex[w]])
           IN IF r.exc = "none" \/ ExceptIntegrityError(r.exc) = "skip"
              THEN /\ lock' = w
                   /\ wtable' = r.table
                   /\ windex' = [windex EXCEPT ![w] = windex[w] + 1]
                   /\ UNCHANGED <<wpc, wexc>>
              ELSE /\ lock' = 0
                   /\ wtable' = <<>>
                   /\ wpc' = [wpc EXCEPT ![w] = "raised"]
                   /\ wexc' = [wexc EXCEPT ![w] = r.exc]
                   /\ UNCHANGED windex
        /\ UNCHANGED wrows
        /\ UNCHANGED <<db, firstSeen, lastOp, lastArg, pre, rep, ret, conn>>
        /\ UNCHANGED <<callVars, fillVars, compileVars>>

\* A caller's INSERT has waited for the other's lock for the whole timeout:
\* c.execute raises sqlite3.OperationalError (database is locked), which the
\* except clause does not catch.
RaceBusyTimeout ==
    \E w \in Writers :
        /\ wpc[w] = "loop"
        /\ windex[w] <= Len(wrows[w])
        /\ lock \notin {0, w}
        /\ IF ExceptIntegrityError("OperationalError") = "skip"
           THEN /\ windex' = [windex EXCEPT ![w] = windex[w] + 1]
                /\ UNCHANGED <<wpc, wexc>>
           ELSE /\ wpc' = [wpc EXCEPT ![w] = "raised"]
                /\ wexc' = [wexc EXCEPT ![w] = "OperationalError"]
                /\ UNCHANGED windex
        /\ UNCHANGED <<wrows, lock, wtable>>
        /\ UNCHANGED <<db, firstSeen, lastOp, lastArg, pre, rep, ret, conn>>
        /\ UNCHANGED <<callVars, fillVars, compileVars>>

\* A caller's loop is over: conn.commit(); conn.close().
RaceCommit ==
    \E w \in Writers :
        /\ wpc[w] = "loop"
        /\ windex[w] > Len(wrows[w])
        /\ IF lock = w
           THEN db' = wtable /\ lock' = 0 /\ wtable' = <<>>
           ELSE UNCHANGED <<db, lock, wtable>>
        /\ wpc' = [wpc EXCEPT ![w] = "done"]
        /\ UNCHANGED <<wrows, windex, wexc>>
        /\ UNCHANGED <<firstSeen, lastOp, lastArg, pre, rep, ret, conn>>
        /\ UNCHANGED <<callVars, fillVars, compileVars>>

RaceNext == RaceStart \/ RaceExecute \/ RaceBusyTimeout \/ RaceCommit

SpecRace == Init /\ [][RaceNext]_vars

RaceOver == \A w \in Writers : wpc[w] \in {"done", "raised"}

OneRowPerTimestamp ==
    /\ \A i, j \in DOMAIN db : db[i].obs_time_local = db[j].obs_time_local => i = j
    /\ \A w \in Writers : \A i \in DOMAIN wrows[w] : Stored(db, wrows[w][i].obs_time_local)

\* C19: when two concurrent inserts whose batches share timestamps are over,
\* neither has raised, the table holds one row per timestamp, and every
\* timestamp of the two batches is stored.
C19_ConcurrentInsertsComplete ==
    RaceOver => ((\A w \in Writers : wpc[w] = "done") /\ OneRowPerTimestamp)

\* One caller committed its batch; the other, kept waiting for the lock,
\* raised OperationalError, and a timestamp only its batch carried is not
\* stored.
C19_Witness ==
    /\ wpc[1] = "done"
    /\ wpc[2] = "raised"
    /\ wexc[2] = "OperationalError"
    /\ SharesTimestamp(wrows[1], wrows[2])
    /\ \E i \in DOMAIN wrows[2] : ~Stored(db, wrows[2][i].obs_time_local)

\* When neither caller ran out of its timeout, the collisions were skipped:
\* one row per timestamp, none missing.
RaceWithoutTimeout ==
    (RaceOver /\ \A w \in Writers : wpc[w] = "done") => OneRowPerTimestamp

(***************************************************************************)
(* make_api_call: @sleep_and_retry over @on_exception(expo,                *)
(* RateLimitException, max_tries=3) over @limits(calls=30, period=60) over *)
(* the function that issues the HTTP request.  One thread calls it.        *)
(***************************************************************************)
Calls == 30

Period == 60

MaxTries == 3

\* What an HTTP request can end in: a 2xx answer, the provider's rate-limit
\* status, another error status, a network failure.
Outcomes == {"ok", "429", "500", "network"}

\* requests.get raises on a network failure; resp.raise_for_status() raises
\* on a 4xx or 5xx status, 429 included.
ExceptionOf(outcome) ==
    IF outcome = "ok" THEN "none"
    ELSE IF outcome = "network" THEN "ConnectionError"
    ELSE "HTTPError"

\* limits: if self.num_calls > self.clamped_calls: raise RateLimitException
LimitExceededLate(n) == n > Calls + 1

LimitExceeded(n) == n > Calls

\* on_exception(expo, RateLimitException, ...): the exceptions backoff retries.
OnExceptionCatchesAll(exc) == TRUE

OnExceptionCatches(exc) == exc = "RateLimitException"

\* sleep_and_retry: except RateLimitException
SleepAndRetryCatchesNone(exc) == FALSE

SleepAndRetryCatchesAll(exc) == TRUE

SleepAndRetryCatches(exc) == exc = "RateLimitException"

\* expo: 1, 2, 4, ... seconds before the 2nd, 3rd, ... try; backoff's full
\* jitter draws the sleep between 0 and that value.
Expo(n) == 2 ^ (n - 1)

\* Who ends up with an exception raised below the decorators: backoff retries
\* it while tries are left, sleep_and_retry sleeps on it, or the caller gets it.
Handler(exc, n) ==
    IF OnExceptionCatches(exc) /\ n < MaxTries THEN "on_exception"
    ELSE IF SleepAndRetryCatches(exc) THEN "sleep_and_retry"
    ELSE "caller"

\* History: the requests issued at time t, kept while they are less than a
\* period old or belong to the limiter's current window.
RECURSIVE Prune(_, _, _)
Prune(log, t, reset) ==
    IF log = <<>> THEN <<>>
    ELSE IF Head(log)[1] > t - Period \/ Head(log)[1] >= reset
         THEN log
         ELSE Prune(Tail(log), t, reset)

Logged(log, t) ==
    IF log # <<>> /\ log[Len(log)][1] = t
    THEN [log EXCEPT ![Len(log)] = <<t, log[Len(log)][2] + 1>>]
    ELSE Append(log, <<t, 1>>)

RECURSIVE CountSince(_, _)
CountSince(log, t) ==
    IF log = <<>> THEN 0
    ELSE (IF Head(log)[1] >= t THEN Head(log)[2] ELSE 0) + CountSince(Tail(log), t)

\* The exception exc, raised with the window's remaining seconds, reaches the
\* decorators.
Raise(exc, remaining) ==
    LET h == Handler(exc, tries)
    IN /\ pc' = (IF h = "on_exception" THEN "backoff_sleep"
                 ELSE IF h = "sleep_and_retry" THEN "retry_sleep"
                 ELSE "raised")
       /\ \E secs \in (IF h = "on_exception" THEN {0, Expo(tries)}
                       ELSE IF h = "sleep_and_retry" THEN {remaining}
                       ELSE {0}) : wake' = now + secs
       /\ result' = (IF h = "caller" THEN [exc |-> exc, value |-> <<>>] ELSE result)

\* A caller enters make_api_call: sleep_and_retry calls backoff's wrapper,
\* which makes its first try.
Enter(p) ==
    /\ pc \in {"idle", "returned", "raised"}
    /\ now <= MaxTime
    /\ pc' = "limits"
    /\ blocked' = FALSE
    /\ params' = p
    /\ tries' = 1
    /\ attempts' = 0
    /\ status' = "none"
    /\ result' = [exc |-> "none", value |-> <<>>]
    /\ UNCHANGED <<now, last_reset, num_calls, wake, recent, responses>>

\* The wrapper of limits: reset the window when it has elapsed, count the
\* call, and raise RateLimitException or go on to the function, whose
\* requests.get sends the HTTP request.
Limits ==
    /\ pc = "limits"
    /\ LET period_remaining == Period - (now - last_reset)
           elapsed == period_remaining <= 0
           counted == (IF elapsed THEN 0 ELSE num_calls) + 1
       IN /\ last_reset' = (IF elapsed THEN now ELSE last_reset)
          /\ num_calls' = counted
          /\ IF LimitExceeded(counted)
             THEN /\ Raise("RateLimitException", period_remaining)
                  /\ recent' = Prune(recent, now, last_reset')
                  /\ blocked' = TRUE
                  /\ UNCHANGED attempts
             ELSE /\ pc' = "request"
                  /\ attempts' = attempts + 1
                  /\ recent' = Logged(Prune(recent, now, last_reset'), now)
                  /\ UNCHANGED <<wake, result, blocked>>
    /\ UNCHANGED <<now, tries, status, params, responses>>
    /\ UNCHANGED <<storeVars, fillVars, compileVars>>

\* The request ends: requests.get returns or raises, raise_for_status,
\* resp.json(), data.get("observations", []).  requests.get(url, params=params)
\* is given no timeout: when the provider stays silent the call goes on
\* waiting, and nothing ends the wait.
Response ==
    /\ pc = "request"
    /\ status = "none"
    /\ \E outcome \in Outcomes \cup {"silent"} :
          /\ status' = outcome
          /\ IF outcome = "ok"
             THEN /\ pc' = "returned"
                  /\ \E data \in ResponsesTo(params) :
                        /\ result' = [exc |-> "none", value |-> data]
                        /\ responses' = (IF IsNone(params.date) THEN responses
                                         ELSE Append(responses, data))
                  /\ UNCHANGED wake
             ELSE IF outcome = "silent"
             THEN UNCHANGED <<pc, wake, result, responses>>
             ELSE Raise(ExceptionOf(outcome), 0) /\ UNCHANGED responses
    /\ UNCHANGED <<now, last_reset, num_calls, tries, attempts, params, recent, blocked>>
    /\ UNCHANGED <<storeVars, fillVars, compileVars>>

\* backoff's sleep is over: the next try.
Retry ==
    /\ pc = "backoff_sleep"
    /\ now >= wake
    /\ pc' = "limits"
    /\ tries' = tries + 1
    /\ UNCHANGED <<now, last_reset, num_calls, wake, attempts, status, result, params,
                   recent, responses, blocked>>
    /\ UNCHANGED <<storeVars, fillVars, compileVars>>

\* sleep_and_retry's sleep is over: it calls backoff's wrapper again.
SleepAndRetry ==
    /\ pc = "retry_sleep"
    /\ now >= wake
    /\ pc' = "limits"
    /\ tries' = 1
    /\ UNCHANGED <<now, last_reset, num_calls, wake, attempts, status, result, params,
                   recent, responses, blocked>>
    /\ UNCHANGED <<storeVars, fillVars, compileVars>>

\* Time passes: up to MaxTime, and past it for as long as a sleep is not over.
Tick ==
    /\ \/ now + ClockStep <= MaxTime
       \/ pc \in {"backoff_sleep", "retry_sleep"} /\ now < wake
    /\ now' = now + ClockStep
    /\ recent' = Prune(recent, now', last_reset)
    /\ UNCHANGED <<last_reset, num_calls, pc, tries, wake, attempts, status, result,
                   params, responses, blocked>>
    /\ UNCHANGED <<storeVars, fillVars, compileVars>>

\* fetch_current_data: a caller that wants one call's result.
FetchCurrentData ==
    /\ Enter([endpoint |-> "/observations/current", date |-> None])
    /\ UNCHANGED <<storeVars, fillVars, compileVars>>

CallNext == FetchCurrentData \/ Limits \/ Response \/ Retry \/ SleepAndRetry \/ Tick

SpecLimiter == Init /\ [][CallNext]_vars

\* The one thread runs: a decorator's step is taken when it can be, a sleep
\* ends when its time has come, and time passes.
SpecLimiterLive ==
    /\ Init
    /\ [][CallNext]_vars
    /\ WF_vars(Limits)
    /\ WF_vars(Retry)
    /\ WF_vars(SleepAndRetry)
    /\ WF_vars(Response)
    /\ WF_vars(Tick)

(***************************************************************************)
(* Claims about make_api_call.                                             *)
(***************************************************************************)
\* C5 as claimed: the 60 seconds that end now hold at most 30 HTTP requests.
C5_SlidingWindow == CountSince(recent, now - Period + 1) <= Calls

\* C5, amended: the limiter's window starts at the first call made 60 seconds
\* or more after the start of the window before it; at most 30 HTTP requests
\* are issued in one window, and a call that finds them used sleeps until 60
\* seconds after the window's start.
C5_FixedWindow ==
    /\ CountSince(recent, last_reset) <= Calls
    /\ pc = "retry_sleep" => wake = last_reset + Period

\* The window's 30 requests are used and a further call is held back.
C5_Witness == pc = "retry_sleep" /\ CountSince(recent, last_reset) = Calls

\* C6 as claimed: a call that ends in the provider's rate-limit rejection has
\* made 3 attempts.
C6_RetriedThreeTimes == (pc = "raised" /\ status = "429") => attempts = MaxTries

\* C6, amended: a 429 answer is an HTTPError, which no decorator catches: the
\* call raises it after its one HTTP request.  The 3 tries of backoff are
\* spent on the local limiter's RateLimitException, before any request.
C6_ProviderRejectionNotRetried ==
    /\ status = "429" => (pc = "raised" /\ attempts = 1 /\ result.exc = "HTTPError")
    /\ tries <= MaxTries
    /\ pc = "backoff_sleep" => attempts = 0

\* A call was answered with 429 and has raised.
C6_Witness == status = "429" /\ pc = "raised" /\ num_calls > 1

\* C7: a network error or an error status other than 429 reaches the caller
\* after exactly one HTTP request.
C7_OtherFailuresNotRetried ==
    status \in {"500", "network"} =>
        /\ pc = "raised"
        /\ attempts = 1
        /\ result.exc = (IF status = "500" THEN "HTTPError" ELSE "ConnectionError")

\* A call failed on the network and has raised.
C7_Witness == status = "network" /\ pc = "raised" /\ num_calls > 1

\* C16: a call that finds the window used up is held, not failed: it never
\* ends in RateLimitException, it has not returned while no request of its
\* own is out, it issues at most one HTTP request, a blocked call that returned
\* returned the answer to its one request, and once blocked it does come to
\* issue the request.
C16_BlockedCallProceeds ==
    /\ [](result.exc # "RateLimitException")
    /\ [](attempts <= 1)
    /\ []((blocked /\ attempts = 0) => pc \in {"limits", "backoff_sleep", "retry_sleep"})
    /\ []((blocked /\ pc = "returned") =>
            (attempts = 1 /\ status = "ok" /\ result.value \in ResponsesTo(params)))
    /\ (blocked /\ attempts = 0) ~> (attempts = 1 /\ pc = "request")

\* A call that had been blocked until the next window has issued its one
\* request and returned its answer.
C16_Witness ==
    /\ blocked
    /\ pc = "returned"
    /\ attempts = 1
    /\ now >= wake
    /\ wake >= Period
    /\ last_reset >= wake

\* C18: an HTTP request that is out ends: the call returns or raises.
C18_RequestEnds == (pc = "request") ~> (pc \in {"returned", "raised"})

\* The provider has stayed silent for as long as the clock runs and the call
\* is still waiting for the answer.
C18_Witness == pc = "request" /\ status = "silent" /\ now >= MaxTime

(***************************************************************************)
(* init_db and fetch_historical_hourly_data: the first-run backfill.       *)
(* Ranges of at most three days stay below the limiter's cap, so the       *)
(* sleeps of the decorators have no part in it.                            *)
(***************************************************************************)
\* config earliest_observation (a string of config.ini, which may name no
\* day), and the days datetime.now() may fall on.
EarliestObservations == { DateStr(2024, 2, 28), DateStr(2024, 3, 1), DateStr(2024, 13, 40) }

Todays == { [y |-> 2024, m |-> 2, d |-> 29], [y |-> 2024, m |-> 3, d |-> 1] }

\* today.strftime("%Y-%m-%d")
strftime_date(dt) == DateStr(dt.y, dt.m, dt.d)

\* start_date.strftime("%Y%m%d")
strftime_compact(dt) == D4(dt.y) \o D2(dt.m) \o D2(dt.d)

DateLess(a, b) ==
    \/ a.y < b.y
    \/ a.y = b.y /\ a.m < b.m
    \/ a.y = b.y /\ a.m = b.m /\ a.d < b.d

\* while start_date <= end_date
LoopGuardExclusive(a, b) == DateLess(a, b)

LoopGuard(a, b) == ~DateLess(b, a)

\* ClimeCapsule.init_db up to the first turn of the loop: the existence test,
\* WeatherDB.init_db, the range, and the two strptime of
\* fetch_historical_hourly_data.
InitDb ==
    /\ fpc \in {"idle", "done", "failed", "skipped"}
    /\ pc \in {"idle", "returned", "raised"}
    /\ IF dbExists
       THEN /\ fpc' = "skipped"
            /\ UNCHANGED <<dbExists, range, start_date, end_date>>
       ELSE \E start \in EarliestObservations, today \in Todays :
               LET end == strftime_date(today)
                   s == strptime_date(start)
                   e == strptime_date(end)
               IN /\ dbExists' = TRUE
                  /\ range' = <<start, end>>
                  /\ IF s.exc # "none" \/ e.exc # "none"
                     THEN fpc' = "failed" /\ UNCHANGED <<start_date, end_date>>
                     ELSE fpc' = "loop" /\ start_date' = s /\ end_date' = e
    /\ UNCHANGED <<observations, fetched, inserts>>
    /\ UNCHANGED <<storeVars, callVars, compileVars>>

\* One turn of the loop, up to the call: params, self.make_api_call(url, params).
BackfillFetch ==
    /\ fpc = "loop"
    /\ LoopGuard(start_date, end_date)
    /\ Enter([endpoint |-> "/history/hourly", date |-> strftime_compact(start_date)])
    /\ fetched' = Append(fetched, strftime_compact(start_date))
    /\ fpc' = "calling"
    /\ UNCHANGED <<dbExists, range, start_date, end_date, observations, inserts>>
    /\ UNCHANGED <<storeVars, compileVars>>

\* The call returned: observations.extend(data); start_date += timedelta(days=1).
BackfillExtend ==
    /\ fpc = "calling"
    /\ pc = "returned"
    /\ observations' = observations \o result.value
    /\ start_date' = NextDay(start_date)
    /\ fpc' = "loop"
    /\ UNCHANGED <<dbExists, range, end_date, fetched, inserts>>
    /\ UNCHANGED <<storeVars, callVars, compileVars>>

\* A loop that would catch the call's exception and stop fetching.
CallExceptBreak(exc) == "break"

\* data = self.make_api_call(url, params) stands in no try block, in the loop
\* or in init_db: the exception propagates.
CallExcept(exc) == "propagate"

\* The call raised: the exception leaves the loop and init_db.
BackfillAbort ==
    /\ fpc = "calling"
    /\ pc = "raised"
    /\ IF CallExcept(result.exc) = "propagate"
       THEN fpc' = "failed" /\ UNCHANGED start_date
       ELSE fpc' = "loop" /\ start_date' = NextDay(end_date)
    /\ UNCHANGED <<dbExists, range, end_date, observations, fetched, inserts>>
    /\ UNCHANGED <<storeVars, callVars, compileVars>>

\* The loop is over: return observations; self.db.insert_observations(observations).
BackfillInsert ==
    /\ fpc = "loop"
    /\ ~LoopGuard(start_date, end_date)
    /\ CallInsertObservations(observations)
    /\ inserts' = Append(inserts, observations)
    /\ fpc' = "done"
    /\ UNCHANGED <<dbExists, range, start_date, end_date, observations, fetched>>
    /\ UNCHANGED <<callVars, compileVars>>

BackfillNext ==
    \/ InitDb \/ BackfillFetch \/ BackfillExtend \/ BackfillAbort \/ BackfillInsert
    \/ Limits \/ Response \/ Tick

SpecBackfill == Init /\ [][BackfillNext]_vars

(***************************************************************************)
(* Claims about the backfill.                                              *)
(***************************************************************************)
\* The calendar around the ranges, each day with its YYYYMMDD text.
Calendar ==
    << [day |-> <<2024, 2, 27>>, text |-> <<50, 48, 50, 52, 48, 50, 50, 55>>],
       [day |-> <<2024, 2, 28>>, text |-> <<50, 48, 50, 52, 48, 50, 50, 56>>],
       [day |-> <<2024, 2, 29>>, text |-> <<50, 48, 50, 52, 48, 50, 50, 57>>],
       [day |-> <<2024, 3, 1>>, text |-> <<50, 48, 50, 52, 48, 51, 48, 49>>],
       [day |-> <<2024, 3, 2>>, text |-> <<50, 48, 50, 52, 48, 51, 48, 50>>] >>

DayTuple(s) == <<DigitsVal4(s, 1), DigitsVal2(s, 6), DigitsVal2(s, 9)>>

NotAfter(a, b) ==
    a = b \/ \E n \in 1..3 : a[n] < b[n] /\ \A k \in 1..(n - 1) : a[k] = b[k]

\* The YYYYMMDD texts of the calendar days from start to end, in order.
ExpectedFetches(r) ==
    LET in == SelectSeq(Calendar, LAMBDA c : NotAfter(DayTuple(r[1]), c.day)
                                             /\ NotAfter(c.day, DayTuple(r[2])))
    IN [i \in DOMAIN in |-> in[i].text]

IsPrefix(a, b) == Len(a) <= Len(b) /\ SubSeq(b, 1, Len(a)) = a

RECURSIVE Flatten(_)
Flatten(lists) == IF lists = <<>> THEN <<>> ELSE Head(lists) \o Flatten(Tail(lists))

\* C8: the hourly calls of a backfill are made for the days of the range in
\* ascending order, one each, with the date as YYYYMMDD; nothing is inserted
\* while calls remain; a run that ends has called for every day of the range
\* (none when start > end) and has passed the returned lists, concatenated in
\* call order, to one insert_observations call.
C8_Backfill ==
    /\ fpc \in {"loop", "calling", "done", "failed"} =>
          IsPrefix(fetched, ExpectedFetches(range))
    /\ fpc \in {"idle", "loop", "calling", "failed"} => inserts = <<>>
    /\ fpc = "done" =>
          /\ fetched = ExpectedFetches(range)
          /\ Len(responses) = Len(fetched)
          /\ inserts = <<Flatten(responses)>>
          /\ lastOp = "insert_observations" /\ lastArg = Flatten(responses)

\* A three-day backfill across the leap day ended with one insert of the three
\* returned lists.
C8_Witness ==
    /\ fpc = "done"
    /\ Len(fetched) = 3
    /\ Len(inserts) = 1
    /\ Len(inserts[1]) >= 4
    /\ Len(db) = 3

\* C12 (fetch_historical_hourly_data): a start string that names no day ends
\* the backfill before any call is made.
FetchRejectsBeforeRequest ==
    (fpc \in {"loop", "calling", "done", "failed"} /\ ~ValidDate(range[1])) =>
        (fpc = "failed" /\ fetched = <<>> /\ pc = "idle" /\ recent = <<>>)

\* C17: when an hourly call of the backfill has raised, the exception leaves
\* init_db, which fails (a later init_db finds the file and does nothing) and
\* has inserted nothing: the table is as it was before the run, empty.
C17_FailedBackfillInsertsNothing ==
    (Len(responses) < Len(fetched) /\ ~(fpc = "calling" /\ pc # "raised")) =>
        /\ fpc \in {"calling", "failed", "skipped"}
        /\ result.exc # "none"
        /\ inserts = <<>>
        /\ db = <<>>
        /\ lastOp = "none"

\* The backfill had fetched observations for a day when a later day's call
\* got an error status: it failed and the table is empty.
C17_Witness ==
    /\ fpc = "failed"
    /\ Len(fetched) >= 2
    /\ observations # <<>>
    /\ status = "500"
    /\ result.exc = "HTTPError"
    /\ db = <<>>

(***************************************************************************)
(* compile_daily_data and the DailyObservation it builds.  The averages    *)
(* are kept in hundredths: round(x, 2) is the nearest multiple of 0.01.    *)
(***************************************************************************)
HighStart == 0

LowStart == 150

\* class DailyObservation(BaseModel): fourteen fields, none with a default.
RequiredFields ==
    {"station_id", "obs_time_local", "friendly_date", "temp_high", "temp_low", "temp_avg",
     "windspeed_high", "windspeed_low", "windspeed_avg", "wind_chill_high",
     "wind_chill_low", "wind_chill_avg", "precip_rate", "precip_avg"}

\* DailyObservation(**kwargs): pydantic raises ValidationError when a required
\* field is not given.
DailyObservation(kwargs) ==
    IF RequiredFields \subseteq DOMAIN kwargs
    THEN [exc |-> "none", value |-> kwargs]
    ELSE [exc |-> "ValidationError", value |-> <<>>]

\* datetime.strptime(s, "%Y-%m-%d %H:%M:%S")
strptime_timestamp(s) ==
    LET bad(e) == [exc |-> e, y |-> 0, m |-> 0, d |-> 0]
    IN IF IsNone(s) THEN bad("TypeError")
       ELSE IF /\ Len(s) = 19
               /\ \A i \in {1, 2, 3, 4, 6, 7, 9, 10, 12, 13, 15, 16, 18, 19} : IsDigit(s[i])
               /\ s[5] = 45 /\ s[8] = 45 /\ s[11] = 32 /\ s[14] = 58 /\ s[17] = 58
       THEN LET y == DigitsVal4(s, 1)
                m == DigitsVal2(s, 6)
                d == DigitsVal2(s, 9)
            IN IF /\ y >= 1 /\ m >= 1 /\ m <= 12 /\ d >= 1 /\ d <= DaysInMonth(y, m)
                  /\ DigitsVal2(s, 12) <= 23 /\ DigitsVal2(s, 15) <= 59
                  /\ DigitsVal2(s, 18) <= 61
               THEN [exc |-> "none", y |-> y, m |-> m, d |-> d]
               ELSE bad("ValueError")
       ELSE bad("ValueError")

MonthName(m) ==
    <<"January", "February", "March", "April", "May", "June", "July", "August",
      "September", "October", "November", "December">>[m]

\* dt.strftime("%B %d, %Y")
strftime_friendly(dt) == [month |-> MonthName(dt.m), day |-> D2(dt.d), year |-> D4(dt.y)]

\* round(total / count, 2), in hundredths (a tie goes to the even neighbour).
Round2(total, count) ==
    LET n == total * 100
        q == n \div count
        r == n % count
    IN IF 2 * r < count THEN q
       ELSE IF 2 * r > count THEN q + 1
       ELSE IF q % 2 = 0 THEN q ELSE q + 1

\* high = value, whatever the running high is.
HigherOfLatest(high, value) == value

\* if value > high: high = value
HigherOf(high, value) == IF value > high THEN value ELSE high

\* if value < low: low = value
LowerOfSwapped(low, value) == IF value > low THEN value ELSE low

LowerOf(low, value) == IF value < low THEN value ELSE low

\* The values one turn of the loop reads; comparing or adding None raises
\* TypeError.
FieldsRead(o) ==
    <<o.imperial.tempHigh, o.imperial.tempLow, o.imperial.tempAvg,
      o.imperial.windspeedHigh, o.imperial.windspeedLow, o.imperial.windspeedAverage,
      o.imperial.windchillHigh, o.imperial.windchillLow, o.imperial.windchillAverage,
      o.imperial.precipRate, o.imperial.precipAverage>>

ReadsNone(o) == \E i \in 1..11 : IsNone(FieldsRead(o)[i])

\* The accumulators before the loop.
Accumulators ==
    [high_temp |-> HighStart, low_temp |-> LowStart, total_avg_temp |-> 0,
     high_windspeed |-> HighStart, low_windspeed |-> LowStart, total_avg_windspeed |-> 0,
     high_wind_chill |-> HighStart, low_wind_chill |-> LowStart, total_avg_windchill |-> 0,
     high_precip_rate |-> 0, precip_rate_avg |-> 0, observation_count |-> 0,
     exc |-> "none"]

\* One turn of the loop.
Accumulate(a, o) ==
    IF ReadsNone(o) THEN [a EXCEPT !.exc = "TypeError"]
    ELSE [a EXCEPT
            !.high_temp = HigherOf(a.high_temp, Num(o.imperial.tempHigh)),
            !.low_temp = LowerOf(a.low_temp, Num(o.imperial.tempLow)),
            !.total_avg_temp = a.total_avg_temp + Num(o.imperial.tempAvg),
            !.high_windspeed = HigherOf(a.high_windspeed, Num(o.imperial.windspeedHigh)),
            !.low_windspeed = LowerOf(a.low_windspeed, Num(o.imperial.windspeedLow)),
            !.total_avg_windspeed =
                a.total_avg_windspeed + Num(o.imperial.windspeedAverage),
            !.high_wind_chill = HigherOf(a.high_wind_chill, Num(o.imperial.windchillHigh)),
            !.low_wind_chill = LowerOf(a.low_wind_chill, Num(o.imperial.windchillLow)),
            !.total_avg_windchill =
                a.total_avg_windchill + Num(o.imperial.windchillAverage),
            !.high_precip_rate = HigherOf(a.high_precip_rate, Num(o.imperial.precipRate)),
            !.precip_rate_avg = a.precip_rate_avg + Num(o.imperial.precipAverage),
            !.observation_count = a.observation_count + 1]

\* for obs in observations: ...  (an exception ends the loop)
RECURSIVE Loop(_, _)
Loop(a, obs_list) ==
    IF obs_list = <<>> \/ a.exc # "none" THEN a
    ELSE Loop(Accumulate(a, Head(obs_list)), Tail(obs_list))

\* observations[0] where the code reads observations[-1].
LastIsFirst(obs_list) == obs_list[1]

\* observations[-1]
LastOf(obs_list) == obs_list[Len(obs_list)]

\* observations[0]
FirstOf(obs_list) == obs_list[1]

compile_daily_data(obs_list) ==
    IF Len(obs_list) # 0
    THEN LET dt == strptime_timestamp(LastOf(obs_list).obsTimeLocal)
             a == Loop(Accumulators, obs_list)
         IN IF dt.exc # "none" THEN [exc |-> dt.exc, value |-> <<>>]
            ELSE IF a.exc # "none" THEN [exc |-> a.exc, value |-> <<>>]
            ELSE DailyObservation(
                   [station_id |-> FirstOf(obs_list).stationID,
                    obs_time_local |-> DateStr(dt.y, dt.m, dt.d),
                    friendly_date |-> strftime_friendly(dt),
                    temp_high |-> a.high_temp,
                    temp_low |-> a.low_temp,
                    temp_avg |-> Round2(a.total_avg_temp, a.observation_count),
                    windspeed_high |-> a.high_windspeed,
                    windspeed_low |-> a.low_windspeed,
                    windspeed_avg |-> Round2(a.total_avg_windspeed, a.observation_count),
                    wind_chill_high |-> a.high_wind_chill,
                    wind_chill_low |-> a.low_wind_chill,
                    wind_chill_avg |-> Round2(a.total_avg_windchill, a.observation_count),
                    precip_rate |-> a.high_precip_rate,
                    precip_avg |-> Round2(a.precip_rate_avg, a.observation_count)])
    ELSE DailyObservation(<<>>)

(***************************************************************************)
(* compile_daily_data applied to lists of the dicts query_by_date builds.  *)
(***************************************************************************)
\* high, low, avg of one quantity: an ordinary hour, one below zero, one
\* above 150, one the provider left out.
Ordinary == <<Some(70), Some(60), Some(65)>>

BelowZero == <<Some(-5), Some(-9), Some(-7)>>

Above150 == <<Some(160), Some(155), Some(158)>>

Missing == <<None, None, None>>

Readings == {Ordinary, BelowZero, Above150, Missing}

\* Temperature, wind speed and wind chill of one hour: at most one of them
\* is not ordinary.
Hours ==
    { h \in Readings \X Readings \X Readings :
        Cardinality({ i \in 1..3 : h[i] # Ordinary }) <= 1 }

\* Station, timestamp and precipitation (rate, total) of an hour.
Stamps ==
    { <<StationId, TS1, <<Some(2), Some(1)>>>>, <<"KCOOTHER2", TS3, <<Some(0), Some(3)>>>> }

CompileObs(stamp, h) ==
    RowDict(ObservationRow(
        [HourlyObs(stamp[2], h[1], h[2], h[3], Some(50), stamp[3])
            EXCEPT !.stationID = stamp[1]]))

CompilePool == { CompileObs(st, h) : st \in Stamps, h \in Hours }

CompileInputs == UNION { [1..n -> CompilePool] : n \in 0..MaxObs }

CompileInit ==
    /\ cpc = "ready"
    /\ input \in CompileInputs
    /\ summary = [exc |-> "none", value |-> <<>>]

InitCompile == StoreInit /\ CallInit /\ FillInit /\ CompileInit /\ PageIdle

\* ClimeCapsule.compile_daily_data(input)
Compile ==
    /\ cpc = "ready"
    /\ summary' = compile_daily_data(input)
    /\ cpc' = "done"
    /\ UNCHANGED <<input, pageVars>>
    /\ UNCHANGED <<storeVars, callVars, fillVars>>

SpecCompile == InitCompile /\ [][Compile]_vars

(***************************************************************************)
(* Claims about compile_daily_data.                                        *)
(***************************************************************************)
\* C9: compile_daily_data([]) returns a summary and does not raise.
C9_EmptySummary == (cpc = "done" /\ input = <<>>) => summary.exc = "none"

MaxOf(S) == CHOOSE x \in S : \A y \in S : y <= x

MinOf(S) == CHOOSE x \in S : \A y \in S : x <= y

Column(list, field) == { Num(list[i].imperial[field]) : i \in DOMAIN list }

HasNone(list) == \E i \in DOMAIN list : \E i2 \in 1..11 : IsNone(FieldsRead(list[i])[i2])

\* C10 as claimed: each returned high is the maximum of the highs and each
\* returned low the minimum of the lows.
C10_HighLow ==
    (cpc = "done" /\ input # <<>> /\ summary.exc = "none") =>
        /\ summary.value.temp_high = MaxOf(Column(input, "tempHigh"))
        /\ summary.value.temp_low = MinOf(Column(input, "tempLow"))
        /\ summary.value.windspeed_high = MaxOf(Column(input, "windspeedHigh"))
        /\ summary.value.windspeed_low = MinOf(Column(input, "windspeedLow"))
        /\ summary.value.wind_chill_high = MaxOf(Column(input, "windchillHigh"))
        /\ summary.value.wind_chill_low = MinOf(Column(input, "windchillLow"))

HighOk(got, highs) == MaxOf(highs) >= HighStart => got = MaxOf(highs)

LowOk(got, lows) == MinOf(lows) <= LowStart => got = MinOf(lows)

\* C10, amended: on a non-empty list the call raises TypeError when a value
\* it reads is null; otherwise it returns, and each high is the maximum of the
\* highs when that maximum is at least 0, each low the minimum of the lows
\* when that minimum is at most 150.
C10_HighLowWithinSentinels ==
    (cpc = "done" /\ input # <<>>) =>
        IF HasNone(input) THEN summary.exc = "TypeError"
        ELSE /\ summary.exc = "none"
             /\ HighOk(summary.value.temp_high, Column(input, "tempHigh"))
             /\ LowOk(summary.value.temp_low, Column(input, "tempLow"))
             /\ HighOk(summary.value.windspeed_high, Column(input, "windspeedHigh"))
             /\ LowOk(summary.value.windspeed_low, Column(input, "windspeedLow"))
             /\ HighOk(summary.value.wind_chill_high, Column(input, "windchillHigh"))
             /\ LowOk(summary.value.wind_chill_low, Column(input, "windchillLow"))

\* A full list was compiled whose highest high is in its last hour and whose
\* lowest low in its first.
C10_Witness ==
    /\ cpc = "done"
    /\ Len(input) = MaxObs
    /\ summary.exc = "none"
    /\ Num(input[1].imperial.tempHigh) < Num(input[Len(input)].imperial.tempHigh)
    /\ summary.value.temp_high = Num(input[Len(input)].imperial.tempHigh)
    /\ summary.value.temp_low = Num(input[1].imperial.tempLow)
    /\ summary.value.temp_low < LowStart

\* The sum of a column, and whether m hundredths is total / count rounded to
\* two decimal places.
RECURSIVE SumOf(_, _)
SumOf(list, field) ==
    IF list = <<>> THEN 0 ELSE Num(Head(list).imperial[field]) + SumOf(Tail(list), field)

Distance(a, b) == IF a >= b THEN a - b ELSE b - a

IsMean2(m, total, count) == 2 * Distance(100 * total, m * count) <= count

MeansOk ==
    /\ IsMean2(summary.value.temp_avg, SumOf(input, "tempAvg"), Len(input))
    /\ IsMean2(summary.value.windspeed_avg, SumOf(input, "windspeedAverage"), Len(input))
    /\ IsMean2(summary.value.wind_chill_avg, SumOf(input, "windchillAverage"), Len(input))
    /\ IsMean2(summary.value.precip_avg, SumOf(input, "precipAverage"), Len(input))
    /\ summary.value.precip_rate = MaxOf(Column(input, "precipRate"))

\* C11: on every non-empty list compile_daily_data returns, with each avg the
\* mean of the per-observation avg values, precip_avg the mean of the
\* per-observation precipitation totals (both to two decimal places) and
\* precip_rate the maximum per-observation rate.
C11_Means == (cpc = "done" /\ input # <<>>) => (summary.exc = "none" /\ MeansOk)

\* A full list with a null average in its last hour was compiled, and the
\* call raised.
C11_Witness ==
    /\ cpc = "done"
    /\ Len(input) = MaxObs
    /\ ~ReadsNone(input[1])
    /\ IsNone(LastOf(input).imperial.windchillAverage)
    /\ summary.exc = "TypeError"

\* The means of C11 on the lists that hold no null.
MeansOfNumbers == (cpc = "done" /\ input # <<>> /\ ~HasNone(input)) => (summary.exc = "none" /\ MeansOk)

Larger(a, b) == IF a >= b THEN a ELSE b

Smaller(a, b) == IF a <= b THEN a ELSE b

\* C14: each high a returned summary carries is the larger of 0 and the
\* maximum of the per-observation highs, each low the smaller of 150 and the
\* minimum of the per-observation lows.
C14_SentinelLeak ==
    (cpc = "done" /\ input # <<>> /\ summary.exc = "none") =>
        /\ summary.value.temp_high = Larger(0, MaxOf(Column(input, "tempHigh")))
        /\ summary.value.temp_low = Smaller(150, MinOf(Column(input, "tempLow")))
        /\ summary.value.windspeed_high = Larger(0, MaxOf(Column(input, "windspeedHigh")))
        /\ summary.value.windspeed_low = Smaller(150, MinOf(Column(input, "windspeedLow")))
        /\ summary.value.wind_chill_high = Larger(0, MaxOf(Column(input, "windchillHigh")))
        /\ summary.value.wind_chill_low = Smaller(150, MinOf(Column(input, "windchillLow")))

\* Every temperature high of a full list was negative and the returned high
\* is 0.
C14_Witness ==
    /\ cpc = "done"
    /\ summary.exc = "none"
    /\ Len(input) = MaxObs
    /\ \A i \in DOMAIN input : Num(input[i].imperial.tempHigh) < 0
    /\ summary.value.temp_high = 0

\* Every wind speed low of a full list was above 150 and the returned low is
\* 150.
C14_WitnessLow ==
    /\ cpc = "done"
    /\ summary.exc = "none"
    /\ Len(input) = MaxObs
    /\ \A i \in DOMAIN input : Num(input[i].imperial.windspeedLow) > 150
    /\ summary.value.windspeed_low = 150

(***************************************************************************)
(* The store and the aggregation together, as the /historical endpoint     *)
(* uses them: a day is queried and the list is compiled, between inserts.  *)
(***************************************************************************)
\* daily_observation = self.controller.compile_daily_data(observations), on
\* the list query_by_date has just returned.
CompileQueried ==
    /\ lastOp = "query_by_date"
    /\ ret.exc = "none"
    /\ input' = ret.value
    /\ summary' = compile_daily_data(ret.value)
    /\ cpc' = "done"
    /\ lastOp' = "compile_daily_data"
    /\ lastArg' = ret.value
    /\ pre' = db
    /\ rep' = "no"
    /\ UNCHANGED <<db, firstSeen, ret, conn, raceVars>>
    /\ UNCHANGED <<callVars, fillVars, pageVars>>

ServiceNext == StoreNext \/ CompileQueried

SpecService == Init /\ [][ServiceNext]_vars

\* C20: no call changes or removes a stored row (the rows of the table stay,
\* in place, with their values; an insert can only add rows after them), and
\* query_by_date and compile_daily_data leave the table as it is.
C20_RowsNeverChange ==
    [][ /\ \A i \in DOMAIN db : i \in DOMAIN db' /\ db'[i] = db[i]
        /\ lastOp' \in {"query_by_date", "compile_daily_data"} => db' = db ]_vars

\* After inserts that met stored timestamps with other values, a day of the
\* full table was queried and compiled, and every first-written row is still
\* in place.
C20_Witness ==
    /\ lastOp = "compile_daily_data"
    /\ summary.exc = "none"
    /\ Len(input) = 2
    /\ Len(db) = 3
    /\ Len(firstSeen) = 3
    /\ \A i \in DOMAIN db : firstSeen[i] = db[i]

(***************************************************************************)
(* ClimeCapsuleAPI.today_plus_history: the current conditions are fetched  *)
(* and stored, today's rows are compiled, and for i = 1 .. years_back the  *)
(* same day i years back is queried and compiled.                          *)
(***************************************************************************)
\* datetime.replace(year=..., day=...): ValueError when the year is outside
\* MINYEAR..MAXYEAR (1..9999) or the day is not a day of the month.
replace(dt, year, day) ==
    IF year < 1 \/ year > 9999 \/ day < 1 \/ day > DaysInMonth(year, dt.m)
    THEN [exc |-> "ValueError", y |-> 0, m |-> 0, d |-> 0]
    ELSE [exc |-> "none", y |-> year, m |-> dt.m, d |-> day]

\* past_year = today.year - i
\* try: past_date = today.replace(year=past_year)
\* except ValueError: past_date = today.replace(year=past_year, day=28)
past_date(today, i) ==
    LET past_year == today.y - i
        first == replace(today, past_year, today.d)
    IN IF first.exc = "ValueError" THEN replace(today, past_year, 28) ELSE first

\* A call of the static method compile_daily_data(observations) with the
\* given positional and keyword arguments: Python raises TypeError when they
\* do not fit the one parameter.
call_compile_daily_data(args, kwargs) ==
    IF Len(args) = 1 /\ kwargs = {}
    THEN compile_daily_data(args[1])
    ELSE [exc |-> "TypeError", value |-> <<>>]

\* for i in range(1, years_back + 1): project, query, compile.  The query is
\* an argument of the call, so it is made before the call is.
RECURSIVE HistoryLoop(_, _, _, _, _)
HistoryLoop(table, today, i, years_back, queried) ==
    IF i > years_back THEN [exc |-> "none", queried |-> queried]
    ELSE LET p == past_date(today, i)
         IN IF p.exc # "none" THEN [exc |-> p.exc, queried |-> queried]
            ELSE LET past_date_str == strftime_date(p)
                     q == query_by_date(table, past_date_str)
                     c == call_compile_daily_data(<<q.value>>, {"through"})
                 IN IF q.exc # "none"
                    THEN [exc |-> q.exc, queried |-> queried]
                    ELSE IF c.exc # "none"
                    THEN [exc |-> c.exc, queried |-> Append(queried, past_date_str)]
                    ELSE HistoryLoop(table, today, i + 1, years_back,
                                     Append(queried, past_date_str))

\* The handler, given what fetch_current_data returned or raised.
today_plus_history(table, today, years_back, fetch) ==
    IF fetch.exc # "none"
    THEN [exc |-> fetch.exc, table |-> table, inserted |-> FALSE, queried |-> <<>>]
    ELSE IF fetch.value = <<>>
    THEN [exc |-> "HTTPException404", table |-> table, inserted |-> FALSE, queried |-> <<>>]
    ELSE LET ins == insert_current_observations(table, fetch.value)
             q == query_by_date(ins.table, strftime_date(today))
             c == call_compile_daily_data(<<q.value, None>>, {})
         IN IF ins.exc # "none"
            THEN [exc |-> ins.exc, table |-> ins.table, inserted |-> TRUE, queried |-> <<>>]
            ELSE IF c.exc # "none"
            THEN [exc |-> c.exc, table |-> ins.table, inserted |-> TRUE, queried |-> <<>>]
            ELSE LET h == HistoryLoop(ins.table, today, 1, years_back, <<>>)
                 IN [exc |-> h.exc, table |-> ins.table, inserted |-> TRUE,
                     queried |-> h.queried]

\* What self.controller.fetch_current_data() gives the handler.
FetchResults ==
    { [exc |-> "none", value |-> v] :
        v \in ResponsesTo([endpoint |-> "/observations/current", date |-> None]) }
    \cup { [exc |-> "HTTPError", value |-> <<>>] }

\* GET /today_plus_history?years_back=...
TodayPlusHistory ==
    \E t \in Todays, yb \in 0..MaxYearsBack, f \in FetchResults :
        LET r == today_plus_history(db, t, yb, f)
        IN /\ page' = [pc |-> "done", today |-> t, years_back |-> yb, current |-> f.value,
                       exc |-> r.exc, queried |-> r.queried]
           /\ db' = r.table
           /\ firstSeen' = (IF r.inserted THEN NoteFirst(firstSeen, MapCurrentRows(f.value))
                            ELSE firstSeen)
           /\ lastOp' = "today_plus_history"
           /\ lastArg' = f.value
           /\ pre' = db
           /\ rep' = "no"
           /\ ret' = [exc |-> r.exc, value |-> <<>>]
           /\ conn' = (IF r.inserted THEN "closed" ELSE conn)
           /\ UNCHANGED <<raceVars, cpc, input, summary, proj>>
           /\ UNCHANGED <<callVars, fillVars>>

\* The days a request may be made on, and the years back a turn of the loop
\* may look: the first few, and those that reach the first year of the
\* calendar.
ProjectTodays ==
    Todays \cup { [y |-> 2024, m |-> 2, d |-> 28], [y |-> 2023, m |-> 12, d |-> 31] }

ProjectYears(today) == (1..MaxYearsBack) \cup {today.y - 1, today.y}

\* One turn's projection (api.py lines 120-127), for a day and a number of
\* years.
Project ==
    /\ \E t \in ProjectTodays :
          \E i \in ProjectYears(t) :
              proj' = [pc |-> "done", today |-> t, i |-> i, out |-> past_date(t, i)]
    /\ UNCHANGED <<cpc, input, summary, page>>
    /\ UNCHANGED <<storeVars, callVars, fillVars>>

PageNext == TodayPlusHistory \/ Project

SpecPage == Init /\ [][PageNext]_vars

\* The day the projection is to give.
ProjectedDay(today, i) ==
    IF today.m = 2 /\ today.d = 29 /\ ~IsLeap(today.y - i)
    THEN <<today.y - i, 2, 28>>
    ELSE <<today.y - i, today.m, today.d>>

ProjectionOk ==
    /\ proj.out.exc = "none"
    /\ <<proj.out.y, proj.out.m, proj.out.d>> = ProjectedDay(proj.today, proj.i)

\* C21: the projection of today i years back, i >= 1, does not fail and gives
\* today's month and day in year today.year - i, or Feb 28 of that year when
\* today is Feb 29 and that year is no leap year.
C21_ProjectionNeverFails == (proj.pc = "done" /\ proj.i >= 1) => ProjectionOk

\* The projection was made as many years back as today's year counts: both
\* replace calls raised ValueError.
C21_Witness ==
    /\ proj.pc = "done"
    /\ proj.i = proj.today.y
    /\ proj.out.exc = "ValueError"

\* The projection is right while the year it reaches is a year of the
\* calendar: i < today.year.
ProjectionWithinCalendar ==
    (proj.pc = "done" /\ proj.i >= 1 /\ proj.i < proj.today.y) => ProjectionOk

\* Feb 29 was projected on a leap year and on a year that is none.
ProjectionLeapDayReached ==
    /\ proj.pc = "done"
    /\ proj.today.m = 2 /\ proj.today.d = 29
    /\ proj.i = MaxYearsBack
    /\ proj.out.exc = "none"

\* No request reaches the loop: with current conditions fetched, the call
\* compile_daily_data(..., None) raises TypeError, and no past date is
\* queried.
PageNeverProjects ==
    page.pc = "done" =>
        /\ page.queried = <<>>
        /\ page.current # <<>> => page.exc = "TypeError"

(***************************************************************************)
(* ClimeCapsule.init_db after a backfill that failed.  WeatherDB.init_db   *)
(* creates the database file before the historical fetch is made, so the   *)
(* file exists whatever the fetch does.                                    *)
(***************************************************************************)
\* C22: after an init_db call whose historical fetch raised, an init_db call
\* that completes normally has run the backfill again and handed its
\* observations to the store.
C22_FailedBackfillRunsAgain ==
    (fpc \in {"done", "skipped"} /\ Len(responses) < Len(fetched)) => inserts # <<>>

\* The fetch of the first start answered 500, and the init_db call of the
\* next start found the database file and skipped the backfill: the store is
\* empty and nothing was ever inserted.
C22_Witness ==
    /\ fpc = "skipped"
    /\ dbExists
    /\ Len(responses) < Len(fetched)
    /\ result.exc = "HTTPError"
    /\ inserts = <<>>
    /\ db = <<>>

\* Once init_db has been called the database file exists, and no later call
\* starts the loop: a backfill that failed is never made up.
FailedBackfillIsLost ==
    [][/\ (fpc' # "idle") => dbExists'
       /\ (fpc \in {"failed", "done", "skipped"}) => (fpc' = fpc \/ fpc' = "skipped")]_vars

(***************************************************************************)
(* The /historical path: compile_daily_data on the rows query_by_date      *)
(* gives for a date, in every store the two inserts can build.             *)
(***************************************************************************)
\* C23: for every store the inserts can reach and every date whose query is
\* not empty, compile_daily_data(query_by_date(d)) returns a daily summary
\* and does not raise.
C23_CompileOfQueryReturns ==
    (lastOp = "compile_daily_data" /\ lastArg # <<>>) =>
        (summary.exc = "none" /\ summary.value # <<>>)

\* A row stored with a null in a field the loop compares or adds was queried
\* and compiled: the comparison or the sum raised TypeError.
C23_Witness ==
    /\ lastOp = "compile_daily_data"
    /\ lastArg # <<>>
    /\ lastArg = input
    /\ \E d \in QueryDates : input = query_by_date(db, d).value
    /\ HasNone(input)
    /\ summary.exc = "TypeError"

\* The compilation of queried rows raises only on a stored null, and returns
\* whenever the rows carry none in the fields it reads.
CompileOfQueryRaisesOnNullOnly ==
    (lastOp = "compile_daily_data" /\ lastArg # <<>>) =>
        /\ summary.exc \in {"none", "TypeError"}
        /\ summary.exc = "TypeError" => HasNone(input)

====
